---- MODULE Spec2Model ----
(***************************************************************************)
(* The scheduling layer of rxRust (src/src/scheduler.rs): task_future,     *)
(* SharedScheduler / LocalScheduler::schedule, SpawnHandle and the three   *)
(* backend adapters (futures ThreadPool, futures LocalSpawner, tokio       *)
(* Runtime), together with the parts of the libraries they drive:          *)
(*   - futures::future::abortable  (Abortable::poll, AbortHandle::abort)   *)
(*   - async_std  FutureExt::delay (DelayFuture::poll)                     *)
(*   - futures::future::lazy                                               *)
(* One schedule call is a "task" t.  Every synchronisation point of the    *)
(* code is a separate step, so that a caller's unsubscribe() can fall      *)
(* between any two of them on the multi-threaded backends.                 *)
(***************************************************************************)
EXTENDS Naturals, FiniteSets

\* ---------------------------------------------------------------- bounds
NumTasks == 2       \* number of schedule calls in one run
MaxDelay == 1       \* the longest delay, in ticks (None is the zero Duration)
MaxUnsub == 2       \* unsubscribe() calls made in one run

Tasks  == 1..NumTasks
\* The delay arguments tried: None, and Some of the longest delay.
Delays == {0, MaxDelay}

Backends == {"ThreadPool", "LocalSpawner", "Tokio"}

\* Positions of one schedule call.
SchedPcs == {"idle", "built", "submitted", "registered", "returned", "panicked"}

\* Positions of the deferred computation  Abortable<Delay<Lazy<closure>>>.
\*   none     not built yet
\*   created  built by task_future, not yet handed to a backend
\*   queued   in the backend's run queue (spawned, or woken)
\*   inner    Abortable::poll passed its first is_aborted() check
\*   waker    the delay was pending; Abortable registered its waker
\*   pending  Abortable::poll returned Pending
\*   lazy     the delay is over; the lazy closure is about to run
\*   checked  c_subscription.is_closed() returned false
\*   running  task(c_subscription, state) has been entered
\*   ok       Ready(Ok(())): body finished, or skipped by the guard
\*   aborted  Ready(Err(Aborted))
FutPcs == {"none", "created", "queued", "inner", "waker", "pending", "lazy",
           "checked", "running", "ok", "aborted"}

VARIABLES
  backend,     \* which adapter implements spawn in this run
  calls,       \* how many schedule calls the program makes in this run
  poolAlive,   \* the LocalPool behind a LocalSpawner still exists
  spc,         \* spc[t]: position of schedule call t
  delay,       \* delay[t]: the delay argument, in ticks (None = 0)
  remaining,   \* remaining[t]: ticks until the delay timer of t expires
  closed,      \* closed[t]: closed flag of the token (shared by its clones)
  teardown,    \* teardown[t]: the leaf the token holds: the task whose
               \* AbortHandle its SpawnHandle carries (0: no leaf)
  h_closed,    \* h_closed[t]: SpawnHandle.is_closed
  aborted,     \* aborted[t]: the AbortHandle's shared `aborted` flag
  fpc,         \* fpc[t]: position of the deferred computation
  invoked,     \* invoked[t]: how many times the body of t was entered
  counter,     \* the shared counter every body increments when it finishes
  unsubCalls,  \* how many unsubscribe() calls were made so far
  lastUnsub,   \* the token of the latest unsubscribe() call (0: none yet)
  unsubAt,     \* unsubAt[t]: where the computation of t stood at the first
               \* unsubscribe() of its token (a Phase), or "never"
  polled       \* polled[t]: the backend has polled the future of t

vars == <<backend, calls, poolAlive, spc, delay, remaining, closed,
          teardown, h_closed, aborted, fpc, invoked, counter, unsubCalls,
          lastUnsub, unsubAt, polled>>

IsLocal == backend = "LocalSpawner"

\* The state before the first schedule call of a program that makes n calls.
InitWith(n) ==
  /\ backend \in Backends
  /\ calls = n
  /\ poolAlive = TRUE
  /\ spc = [t \in Tasks |-> "idle"]
  /\ delay = [t \in Tasks |-> 0]
  /\ remaining = [t \in Tasks |-> 0]
  /\ closed = [t \in Tasks |-> FALSE]
  /\ teardown = [t \in Tasks |-> 0]
  /\ h_closed = [t \in Tasks |-> FALSE]
  /\ aborted = [t \in Tasks |-> FALSE]
  /\ fpc = [t \in Tasks |-> "none"]
  /\ invoked = [t \in Tasks |-> 0]
  /\ counter = 0
  /\ unsubCalls = 0
  /\ lastUnsub = 0
  /\ unsubAt = [t \in Tasks |-> "never"]
  /\ polled = [t \in Tasks |-> FALSE]

Init == InitWith(NumTasks)

\* ------------------------------------------------- who may run when
\* The deferred computation is inside a poll, outside the body.
MidPoll(t) == fpc[t] \in {"inner", "waker", "lazy", "checked"}
InBody(t) == fpc[t] = "running"
InSchedule(t) == spc[t] \in {"built", "submitted", "registered"}

\* LocalSpawner / LocalSubscription are !Send: everything of a Local run
\* happens on one thread.  The caller's code (schedule, unsubscribe) runs
\* either outside LocalPool::run or inside a task body, never in the middle
\* of a poll and never while another call of the same thread is open.
CallerMayAct ==
  IsLocal => \A u \in Tasks : ~MidPoll(u) /\ ~InSchedule(u)

\* The thread inside a schedule call moves on (no poll can intervene on the
\* Local thread; on a Shared backend the workers run freely).
CallerMayContinue ==
  IsLocal => \A u \in Tasks : ~MidPoll(u)

\* Faults: the Local computation is handed to workers that run freely,
\* like those of a thread pool / the Local loop polls although a call of
\* its own thread is still open.
WorkerAnyThread(t) == TRUE
WorkerIgnoresOpenCall(t) ==
  IsLocal => /\ poolAlive
             /\ \A u \in Tasks \ {t} : ~MidPoll(u) /\ ~InBody(u)

\* A worker may take a step of task t.  The Local loop polls one task at a
\* time, only while the pool exists and no call of its thread is open.
WorkerMayStep(t) ==
  IsLocal => /\ poolAlive
             /\ \A u \in Tasks : ~InSchedule(u)
             /\ \A u \in Tasks \ {t} : ~MidPoll(u) /\ ~InBody(u)


\* ------------------------------------------------- task_future (8-26)
\* U::default(): a fresh token is open.
FreshToken == FALSE

\* `.delay(delay.unwrap_or_default())`: None is the zero Duration.  The
\* timer is armed when the future is built, inside schedule.
TimerTicks(d) == d

\* Faults of the timer test: the delay is not waited for / the comparison
\* is inverted, so that a timer that has run down never reads as fired.
DelayIgnored(t) == TRUE
DelayInverted(t) == remaining[t] = delay[t] /\ delay[t] > 0

\* DelayFuture::poll: the inner future is polled only once the timer fired.
DelayElapsed(t) == remaining[t] = 0

\* Fault of the guard: it is left out.
GuardOmitted(t) == TRUE

\* Fault: the `!` of the guard is missing.
GuardInverted(t) == closed[t]

\* Fault: the tokens of all schedule calls share one flag.
GuardAnyTokenClosed(t) == \A u \in Tasks : ~closed[u]

\* `if !c_subscription.is_closed()`: the guard of the lazy closure, read
\* through the clone, which shares the flag with the caller's token.
GuardPasses(t) == ~closed[t]

\* Fault: the closure is left in place and the future asks to be polled again.
AfterBodyRequeued == "queued"

\* Lazy hands its closure out once; after the closure returned the future
\* is Ready and the backend retires it.
AfterBody == "ok"

\* let (subscription, fut) = task_future(task, state, delay)
TaskFuture(t, d) ==
  /\ spc[t] = "idle"
  /\ t <= calls
  /\ \A u \in Tasks : u < t => spc[u] # "idle"   \* calls are numbered in order
  /\ CallerMayAct
  /\ spc' = [spc EXCEPT ![t] = "built"]
  /\ delay' = [delay EXCEPT ![t] = d]
  /\ remaining' = [remaining EXCEPT ![t] = TimerTicks(d)]
  /\ closed' = [closed EXCEPT ![t] = FreshToken]
  /\ fpc' = [fpc EXCEPT ![t] = "created"]
  /\ UNCHANGED <<backend, calls, poolAlive, teardown, h_closed, aborted,
                 invoked, counter, unsubCalls, lastUnsub, unsubAt, polled>>

\* ------------------------------------------------- SpawnHandle (63-91)
\* Fault: a handle that is born closed.
SpawnHandle_newClosed == TRUE

\* SpawnHandle::new(handle): is_closed starts false.
SpawnHandle_new == FALSE

\* Faults of unsubscribe: the flag is flipped instead of set / abort() is
\* not called.
SpawnHandle_unsubscribeToggles(h) ==
  [is_closed |-> ~h.is_closed, aborted |-> TRUE]
SpawnHandle_unsubscribeNoAbort(h) ==
  [is_closed |-> TRUE, aborted |-> h.aborted]

\* SpawnHandle::unsubscribe: self.is_closed = true; self.handle.abort().
\* h = [is_closed, aborted] |-> the same record after the call.
SpawnHandle_unsubscribe(h) == [is_closed |-> TRUE, aborted |-> TRUE]

\* SpawnHandle::is_closed
SpawnHandle_is_closed(t) == h_closed[t]

\* ------------------------------------------------- the token
\* Where the deferred computation of t stands with respect to its guard:
\* before the is_closed() check, between the check and the body, inside
\* the body, or retired.
Phase(t) ==
  CASE fpc[t] \in {"queued", "inner", "waker", "pending", "lazy"} -> "early"
    [] fpc[t] = "checked" -> "checked"
    [] fpc[t] = "running" -> "running"
    [] OTHER -> "late"

\* The token holds a leaf.
HasLeaf(t) == teardown[t] # 0

\* SharedSubscription / LocalSubscription::add(SpawnHandle::new(handle)):
\* the fresh leaf, which carries the AbortHandle of the computation of the
\* same call, joins the token.  What add does with a leaf on a token that
\* is closed already (the body closed it through its clone before line
\* 109) is the aggregate's business: the leaf is kept or not, and it is
\* unsubscribed or not.  The computation of such a token is in or past its
\* body, never parked, so that abort() has no task to wake.
Token_add(t) ==
  \E keep, unsub \in (IF closed[t] THEN BOOLEAN ELSE {TRUE}) :
    LET new == [is_closed |-> SpawnHandle_new, aborted |-> aborted[t]]
        h == IF closed[t] /\ unsub THEN SpawnHandle_unsubscribe(new) ELSE new
    IN /\ teardown' = [teardown EXCEPT ![t] = IF keep THEN t ELSE 0]
       /\ h_closed' = [h_closed EXCEPT ![t] = h.is_closed]
       /\ aborted' = [aborted EXCEPT ![t] = h.aborted]

\* unsubscribe() of the token: close it and unsubscribe every added leaf;
\* a token that is closed already may return at once instead.
\* AbortHandle::abort also wakes the task if it is parked (a task whose
\* LocalPool was dropped is gone with it: there is nothing to queue).
\* The call is made by whoever holds the token: the caller, to whom
\* schedule returned it, or the body, which is handed the clone at line 20
\* (and whoever the body passed it to); on the ThreadPool the body can run
\* before line 109, and then closes a token that has no leaf yet.
Unsubscribe(t) ==
  /\ spc[t] = "returned" \/ invoked[t] > 0
  /\ unsubCalls < MaxUnsub
  /\ CallerMayAct
  /\ closed' = [closed EXCEPT ![t] = TRUE]
  /\ \E forward \in (IF closed[t] THEN BOOLEAN ELSE {TRUE}) :
       LET c == teardown[t]
           h == SpawnHandle_unsubscribe(
                  [is_closed |-> h_closed[t],
                   aborted |-> IF HasLeaf(t) THEN aborted[c] ELSE FALSE])
       IN IF HasLeaf(t) /\ forward
            THEN /\ h_closed' = [h_closed EXCEPT ![t] = h.is_closed]
                 /\ aborted' = [aborted EXCEPT ![c] = h.aborted]
                 /\ fpc' = [fpc EXCEPT ![c] =
                              IF /\ fpc[c] = "pending"
                                 /\ h.aborted
                                 /\ ~IsLocal \/ poolAlive
                                THEN "queued" ELSE fpc[c]]
            ELSE UNCHANGED <<h_closed, aborted, fpc>>
  /\ unsubCalls' = unsubCalls + 1
  /\ lastUnsub' = t
  /\ unsubAt' = [unsubAt EXCEPT ![t] =
                   IF unsubAt[t] = "never" THEN Phase(t) ELSE unsubAt[t]]
  /\ UNCHANGED <<backend, calls, poolAlive, spc, delay, remaining, teardown,
                 invoked, counter, polled>>

\* ------------------------------------------------- adapters (93-160)
\* What the unwrap() of a submission makes of its result.
Unwrap(accepted) == IF accepted THEN "submitted" ELSE "panicked"

\* Fault (as an ordering): the handle is added before the submission, as
\* rt_spawn does.
SpawnThreadPoolSubmitRegisters(t) ==
  /\ backend = "ThreadPool"
  /\ spc[t] = "built"
  /\ spc' = [spc EXCEPT ![t] = "submitted"]
  /\ fpc' = [fpc EXCEPT ![t] = "queued"]
  /\ teardown' = [teardown EXCEPT ![t] = t]
  /\ UNCHANGED <<backend, calls, poolAlive, delay, remaining, closed,
                 h_closed, aborted, invoked, counter, unsubCalls, lastUnsub,
                 unsubAt, polled>>

\* ThreadPool::spawn, lines 107-108: abortable(future), then
\* SpawnExt::spawn(self, ..).unwrap().  ThreadPool::spawn_obj always
\* returns Ok.
SpawnThreadPoolSubmit(t) ==
  /\ backend = "ThreadPool"
  /\ spc[t] = "built"
  /\ spc' = [spc EXCEPT ![t] = Unwrap(TRUE)]
  /\ fpc' = [fpc EXCEPT ![t] = "queued"]
  /\ UNCHANGED <<backend, calls, poolAlive, delay, remaining, closed,
                 teardown, h_closed, aborted, invoked, counter, unsubCalls,
                 lastUnsub, unsubAt, polled>>

\* Fault: spawn waits for the submitted computation before it returns.
SpawnThreadPoolAddJoins(t) ==
  /\ backend = "ThreadPool"
  /\ spc[t] = "submitted"
  /\ fpc[t] \in {"ok", "aborted"}
  /\ Token_add(t)
  /\ spc' = [spc EXCEPT ![t] = "returned"]
  /\ UNCHANGED <<backend, calls, poolAlive, delay, remaining, closed, fpc,
                 invoked, counter, unsubCalls, lastUnsub, unsubAt, polled>>

\* ThreadPool::spawn, line 109, and the return of schedule (line 42).
SpawnThreadPoolAdd(t) ==
  /\ backend = "ThreadPool"
  /\ spc[t] = "submitted"
  /\ Token_add(t)
  /\ spc' = [spc EXCEPT ![t] = "returned"]
  /\ UNCHANGED <<backend, calls, poolAlive, delay, remaining, closed, fpc,
                 invoked, counter, unsubCalls, lastUnsub, unsubAt, polled>>

\* LocalSpawner::spawn, lines 118-119: abortable(future), then
\* self.spawn_local(..).unwrap().  spawn_local_obj returns
\* Err(SpawnError::shutdown()) once the LocalPool is gone.
SpawnLocalSubmit(t) ==
  /\ backend = "LocalSpawner"
  /\ spc[t] = "built"
  /\ CallerMayContinue
  /\ spc' = [spc EXCEPT ![t] = Unwrap(poolAlive)]
  /\ fpc' = [fpc EXCEPT ![t] = IF poolAlive THEN "queued" ELSE fpc[t]]
  /\ UNCHANGED <<backend, calls, poolAlive, delay, remaining, closed,
                 teardown, h_closed, aborted, invoked, counter, unsubCalls,
                 lastUnsub, unsubAt, polled>>

\* Fault: the handle is dropped instead of being added to the token.
SpawnLocalAddForgets(t) ==
  /\ backend = "LocalSpawner"
  /\ spc[t] = "submitted"
  /\ CallerMayContinue
  /\ spc' = [spc EXCEPT ![t] = "returned"]
  /\ UNCHANGED <<backend, calls, poolAlive, delay, remaining, closed,
                 teardown, h_closed, aborted, fpc, invoked, counter,
                 unsubCalls, lastUnsub, unsubAt, polled>>

\* LocalSpawner::spawn, line 120, and the return of schedule (line 59).
SpawnLocalAdd(t) ==
  /\ backend = "LocalSpawner"
  /\ spc[t] = "submitted"
  /\ CallerMayContinue
  /\ Token_add(t)
  /\ spc' = [spc EXCEPT ![t] = "returned"]
  /\ UNCHANGED <<backend, calls, poolAlive, delay, remaining, closed, fpc,
                 invoked, counter, unsubCalls, lastUnsub, unsubAt, polled>>

\* Fault: lines 139 and 140 are exchanged, the computation is submitted
\* before the handle is added.
RtSpawnAddSubmitsFirst(t) ==
  /\ backend = "Tokio"
  /\ spc[t] = "built"
  /\ spc' = [spc EXCEPT ![t] = "registered"]
  /\ fpc' = [fpc EXCEPT ![t] = "queued"]
  /\ UNCHANGED <<backend, calls, poolAlive, delay, remaining, closed,
                 teardown, h_closed, aborted, invoked, counter, unsubCalls,
                 lastUnsub, unsubAt, polled>>

\* rt_spawn, lines 138-139: abortable(future), then
\* subscription.add(SpawnHandle::new(handle)).
RtSpawnAdd(t) ==
  /\ backend = "Tokio"
  /\ spc[t] = "built"
  /\ Token_add(t)
  /\ spc' = [spc EXCEPT ![t] = "registered"]
  /\ UNCHANGED <<backend, calls, poolAlive, delay, remaining, closed, fpc,
                 invoked, counter, unsubCalls, lastUnsub, unsubAt, polled>>

\* rt_spawn, line 140: rt.spawn(f), and the return of schedule (line 42).
RtSpawnSubmit(t) ==
  /\ backend = "Tokio"
  /\ spc[t] = "registered"
  /\ spc' = [spc EXCEPT ![t] = "returned"]
  /\ fpc' = [fpc EXCEPT ![t] = "queued"]
  /\ UNCHANGED <<backend, calls, poolAlive, delay, remaining, closed,
                 teardown, h_closed, aborted, invoked, counter, unsubCalls,
                 lastUnsub, unsubAt, polled>>

\* The LocalPool is dropped by the thread that owns it, between two runs
\* of its loop; what is still queued in it is dropped with it.
Shutdown ==
  /\ IsLocal
  /\ poolAlive
  /\ \A u \in Tasks : ~MidPoll(u) /\ ~InBody(u) /\ ~InSchedule(u)
  /\ poolAlive' = FALSE
  /\ UNCHANGED <<backend, calls, spc, delay, remaining, closed, teardown,
                 h_closed, aborted, fpc, invoked, counter, unsubCalls,
                 lastUnsub, unsubAt, polled>>


\* ------------------------------------------------- the backend at work
\* Time passes: every armed timer that has not fired gets one tick closer.
\* (Time passing with no armed timer changes nothing and is left out.)
Tick ==
  /\ \E t \in Tasks : spc[t] # "idle" /\ remaining[t] > 0
  /\ remaining' = [t \in Tasks |->
                     IF spc[t] # "idle" /\ remaining[t] > 0
                       THEN remaining[t] - 1 ELSE remaining[t]]
  /\ UNCHANGED <<backend, calls, poolAlive, spc, delay, closed, teardown,
                 h_closed, aborted, fpc, invoked, counter, unsubCalls,
                 lastUnsub, unsubAt, polled>>

\* Fault: the abort flag is honoured in the middle of the body as well.
AbortPreempts(f) == f \in {"queued", "running"}

\* Where Abortable::poll looks at the abort flag first: at the start of a
\* poll of the queued task, never inside the inner future.
AbortCheckedAt(f) == f = "queued"

\* Abortable::poll, first check: `if self.is_aborted() { return
\* Poll::Ready(Err(Aborted)) }`, else poll the inner future.
PollAbortable(t) ==
  /\ AbortCheckedAt(fpc[t])
  /\ fpc[t] \notin {"none", "created", "ok", "aborted"}
  /\ WorkerMayStep(t)
  /\ fpc' = [fpc EXCEPT ![t] = IF aborted[t] THEN "aborted"
                               ELSE IF fpc[t] = "queued" THEN "inner"
                               ELSE fpc[t]]
  /\ polled' = [polled EXCEPT ![t] = TRUE]
  /\ UNCHANGED <<backend, calls, poolAlive, spc, delay, remaining, closed,
                 teardown, h_closed, aborted, invoked, counter, unsubCalls,
                 lastUnsub, unsubAt>>

\* DelayFuture::poll: Pending while the timer has not fired (Abortable then
\* registers its waker), else the lazy future is polled.
PollDelay(t) ==
  /\ fpc[t] = "inner"
  /\ WorkerMayStep(t)
  /\ fpc' = [fpc EXCEPT ![t] = IF DelayElapsed(t) THEN "lazy" ELSE "waker"]
  /\ UNCHANGED <<backend, calls, poolAlive, spc, delay, remaining, closed,
                 teardown, h_closed, aborted, invoked, counter, unsubCalls,
                 lastUnsub, unsubAt, polled>>

\* Abortable::poll, second check after registering the waker: aborted
\* between the first check and the registration?
PollRecheck(t) ==
  /\ fpc[t] = "waker"
  /\ WorkerMayStep(t)
  /\ fpc' = [fpc EXCEPT ![t] = IF aborted[t] THEN "aborted" ELSE "pending"]
  /\ UNCHANGED <<backend, calls, poolAlive, spc, delay, remaining, closed,
                 teardown, h_closed, aborted, invoked, counter, unsubCalls,
                 lastUnsub, unsubAt, polled>>

\* The timer fires and wakes the parked task (the wake-up by abort() is
\* part of Unsubscribe).
Wake(t) ==
  /\ fpc[t] = "pending"
  /\ DelayElapsed(t)
  /\ ~IsLocal \/ poolAlive
  /\ fpc' = [fpc EXCEPT ![t] = "queued"]
  /\ UNCHANGED <<backend, calls, poolAlive, spc, delay, remaining, closed,
                 teardown, h_closed, aborted, invoked, counter, unsubCalls,
                 lastUnsub, unsubAt, polled>>

\* Line 19: the lazy closure evaluates !c_subscription.is_closed().
LazyCheck(t) ==
  /\ fpc[t] = "lazy"
  /\ WorkerMayStep(t)
  /\ fpc' = [fpc EXCEPT ![t] = IF GuardPasses(t) THEN "checked" ELSE "ok"]
  /\ UNCHANGED <<backend, calls, poolAlive, spc, delay, remaining, closed,
                 teardown, h_closed, aborted, invoked, counter, unsubCalls,
                 lastUnsub, unsubAt, polled>>

\* Line 20: task(c_subscription, state) is entered.
BodyStart(t) ==
  /\ fpc[t] = "checked"
  /\ WorkerMayStep(t)
  /\ fpc' = [fpc EXCEPT ![t] = "running"]
  /\ invoked' = [invoked EXCEPT ![t] = invoked[t] + 1]
  /\ UNCHANGED <<backend, calls, poolAlive, spc, delay, remaining, closed,
                 teardown, h_closed, aborted, counter, unsubCalls, lastUnsub,
                 unsubAt, polled>>

\* The body returns, having incremented the shared counter.
BodyEnd(t) ==
  /\ fpc[t] = "running"
  /\ WorkerMayStep(t)
  /\ fpc' = [fpc EXCEPT ![t] = AfterBody]
  /\ counter' = counter + 1
  /\ UNCHANGED <<backend, calls, poolAlive, spc, delay, remaining, closed,
                 teardown, h_closed, aborted, invoked, unsubCalls, lastUnsub,
                 unsubAt, polled>>

\* ------------------------------------------------- specification
Schedule(t) ==
  \/ \E d \in Delays : TaskFuture(t, d)
  \/ SpawnThreadPoolSubmit(t)
  \/ SpawnThreadPoolAdd(t)
  \/ SpawnLocalSubmit(t)
  \/ SpawnLocalAdd(t)
  \/ RtSpawnAdd(t)
  \/ RtSpawnSubmit(t)

Worker(t) ==
  \/ PollAbortable(t)
  \/ PollDelay(t)
  \/ PollRecheck(t)
  \/ Wake(t)
  \/ LazyCheck(t)
  \/ BodyStart(t)
  \/ BodyEnd(t)

Next ==
  \/ \E t \in Tasks : Schedule(t)
  \/ \E t \in Tasks : Worker(t)
  \/ \E t \in Tasks : Unsubscribe(t)
  \/ Tick
  \/ Shutdown

Spec == Init /\ [][Next]_vars

\* A call that was entered runs to its return, workers keep polling what is
\* queued, timers fire.  Nobody is obliged to call schedule or unsubscribe,
\* or to keep the LocalPool.
Running ==
  \/ \E t \in Tasks : Worker(t)
  \/ \E t \in Tasks : SpawnThreadPoolSubmit(t) \/ SpawnThreadPoolAdd(t)
  \/ \E t \in Tasks : SpawnLocalSubmit(t) \/ SpawnLocalAdd(t)
  \/ \E t \in Tasks : RtSpawnAdd(t) \/ RtSpawnSubmit(t)
  \/ Tick

\* The fair runs are checked for programs of one call fewer than Spec's.
FairInit == InitWith(NumTasks - 1)

FairSpec == FairInit /\ [][Next]_vars /\ WF_vars(Running)


\* ================================================= properties
Retired(t) == fpc[t] \in {"ok", "aborted"}

\* The latest step was an unsubscribe() call on token t.
UnsubscribeStep(t) == unsubCalls' = unsubCalls + 1 /\ lastUnsub' = t

\* C1: a task whose token was unsubscribed before its deferred computation
\* reached the is_closed() check (during the delay wait, or before the
\* first poll) never has its body invoked.
C1_CancelledBeforeCheckNeverRuns ==
  \A t \in Tasks : unsubAt[t] = "early" => invoked[t] = 0

\* C1 case: unsubscribed during the delay wait, the guard skipped the body.
C1_Witness ==
  \E t \in Tasks : /\ unsubAt[t] = "early"
                   /\ delay[t] > 0
                   /\ fpc[t] = "ok"
                   /\ invoked[t] = 0

\* C2: under a backend that keeps running, a task whose token is never
\* unsubscribed (and whose pool is not dropped) eventually has its body
\* run to its end, and the body is entered exactly once.
C2_RunsExactlyOnce ==
  /\ \A t \in Tasks :
       (spc[t] = "returned") ~>
         (closed[t] \/ ~poolAlive \/ (fpc[t] = "ok" /\ invoked[t] = 1))
  /\ [](\A t \in Tasks : Retired(t) /\ ~closed[t] => invoked[t] = 1)

\* C2 case: a delayed task, never unsubscribed, has run.
C2_Witness ==
  \E t \in Tasks : /\ unsubAt[t] = "never"
                   /\ delay[t] > 0
                   /\ fpc[t] = "ok"
                   /\ invoked[t] = 1

\* C3: the body of one schedule call is entered at most once.
C3_AtMostOnce == \A t \in Tasks : invoked[t] <= 1

\* C3 case: a delayed task that was parked, woken, run and unsubscribed.
C3_Witness ==
  \E t \in Tasks : /\ invoked[t] = 1
                   /\ delay[t] > 0
                   /\ closed[t]
                   /\ fpc[t] = "ok"

C5_NoPanic == \A t \in Tasks : spc[t] # "panicked"

C7_OneWay ==
  /\ [](\A t \in Tasks :
          unsubAt[t] = "never" =>
            ~closed[t] /\ (HasLeaf(t) => ~SpawnHandle_is_closed(t)))
  /\ [][\A t \in Tasks : /\ closed[t] => closed'[t]
                         /\ h_closed[t] => h_closed'[t]]_vars

\* C7 case: a closed token went through the end of its body.
C7_Witness ==
  \E t \in Tasks : /\ closed[t] /\ h_closed[t]
                   /\ unsubAt[t] \in {"checked", "running"}
                   /\ fpc[t] = "ok"

\* C8: the lazy closure, and so the body, is reached only after the whole
\* delay has passed since the task was built (a delay of None is the zero
\* Duration, which has passed at once).
C8_NotBeforeDelay ==
  \A t \in Tasks :
    (fpc[t] \in {"lazy", "checked", "running"} \/ invoked[t] > 0)
      => remaining[t] = 0

\* C8 case: a delayed task has started its body.
C8_Witness ==
  \E t \in Tasks : delay[t] = MaxDelay /\ MaxDelay > 0 /\ fpc[t] = "running"

\* C9 as stated: at the instant the body is entered the token is open.
C9_Original ==
  [][\A t \in Tasks : invoked'[t] > invoked[t] => ~closed[t]]_vars

\* C9 as amended: the body is entered only right after an is_closed() check
\* that found the token open; on the Local backend the token is still open
\* when the body is entered.
C9_OpenAtCheck ==
  [][\A t \in Tasks :
       /\ (fpc'[t] = "checked" /\ fpc[t] # "checked") => ~closed[t]
       /\ invoked'[t] > invoked[t] =>
            fpc[t] = "checked" /\ (IsLocal => ~closed[t])]_vars

\* C9 case: the body was entered after an unsubscribe() that fell between
\* the check and the call.
C9_Witness ==
  \E t \in Tasks : unsubAt[t] = "checked" /\ fpc[t] = "running"

\* C10: an unsubscribe() made while the body runs does not interrupt it:
\* the computation goes from running to finished and nowhere else, the
\* body counts once, the token is closed, and nothing fails.
C10_BodyRunsToCompletion ==
  /\ [](\A t \in Tasks :
          unsubAt[t] = "running" =>
            /\ fpc[t] \in {"running", "ok"}
            /\ invoked[t] = 1
            /\ closed[t]
            /\ spc[t] \in {"submitted", "returned"}
            /\ fpc[t] = "ok" => counter >= 1)
  /\ \A t \in Tasks : (unsubAt[t] = "running") ~> (fpc[t] = "ok")

\* C10 case: unsubscribed in the middle of the body, which then finished.
C10_Witness ==
  \E t \in Tasks : /\ unsubAt[t] = "running"
                   /\ fpc[t] = "ok"
                   /\ invoked[t] = 1

\* The positions of a schedule call at which its spawn has added the
\* SpawnHandle to the token.
RegisteredAt ==
  IF backend = "Tokio" THEN {"registered", "returned"} ELSE {"returned"}

\* The step is the add of the spawn of schedule call t.
AddStep(t) == spc[t] \notin RegisteredAt /\ spc'[t] \in RegisteredAt

Called == 1..calls

\* Everything the program scheduled has returned from schedule and has been
\* retired by the backend.
Drained == \A t \in Called : spc[t] = "returned" /\ Retired(t)

\* C13: on a multi-threaded backend, when none of the N scheduled tasks is
\* unsubscribed, the shared counter equals N once the backend has drained
\* (N up to NumTasks, every interleaving of the workers).
C13_CounterEqualsN ==
  (~IsLocal /\ Drained /\ \A t \in Called : unsubAt[t] = "never")
    => counter = calls

\* C13 case: NumTasks tasks without delay ran on the ThreadPool and the
\* pool drained.
C13_Witness ==
  /\ backend = "ThreadPool"
  /\ calls = NumTasks
  /\ Drained
  /\ \A t \in Called : unsubAt[t] = "never" /\ delay[t] = 0
  /\ counter = NumTasks

\* The next step of the schedule call t that has been entered.
ContinueSchedule(t) ==
  \/ SpawnThreadPoolSubmit(t)
  \/ SpawnThreadPoolAdd(t)
  \/ SpawnLocalSubmit(t)
  \/ SpawnLocalAdd(t)
  \/ RtSpawnAdd(t)
  \/ RtSpawnSubmit(t)

\* C14: schedule never waits for the task: whenever a schedule call is
\* open, its next step can be taken at once, whatever the timer, the
\* workers and the body of its task (or of any other) are doing.
C14_ScheduleNeverWaits ==
  \A t \in Tasks : InSchedule(t) => ENABLED ContinueSchedule(t)

\* C14 case: schedule has returned the token while the delay is still
\* running and no worker has looked at the task.
C14_Witness ==
  \E t \in Tasks : /\ spc[t] = "returned"
                   /\ remaining[t] > 0
                   /\ fpc[t] = "queued"
                   /\ invoked[t] = 0

\* The tasks some execution context is driving right now.
Driven == {t \in Tasks : MidPoll(t) \/ InBody(t)}

\* C15: on the Local backend there is one execution context, the one that
\* drives the loop: at most one task is being driven at any time, only
\* while the pool exists, never from inside an open schedule call of that
\* thread, and a body is entered only after its schedule call returned.
\* On every backend a body is entered at most once, and the closure call
\* of line 20 runs on the worker that entered it: one worker per task.
C15_OneContext ==
  /\ IsLocal =>
       /\ Cardinality(Driven) <= 1
       /\ \A t \in Tasks :
            /\ MidPoll(t) => poolAlive /\ \A u \in Tasks : ~InSchedule(u)
            /\ invoked[t] > 0 => spc[t] = "returned"
  /\ \A t \in Tasks : invoked[t] <= 1

\* C15 case: the Local loop is inside the body of one task while another
\* task is queued behind it.
C15_Witness ==
  /\ IsLocal
  /\ \E t, u \in Tasks : /\ t # u
                         /\ fpc[t] = "running"
                         /\ fpc[u] = "queued"
                         /\ spc[u] = "returned"

\* The backend has the computation: it was submitted, and maybe driven.
Submitted(t) == fpc[t] \notin {"none", "created"}

\* The backend has polled the future of t at least once (a task woken by
\* its timer or by abort() waits in the queue again, and stays polled).
Polled(t) == polled[t]

\* C16: with the tokio adapter the token holds the abort capability in
\* every state in which the runtime has the computation (so also whenever
\* it drives it or the body has begun); the add comes before the submission.
C16_TokioRegistersFirst ==
  backend = "Tokio" =>
    \A t \in Tasks :
      /\ Submitted(t) => HasLeaf(t)
      /\ spc[t] = "registered" => HasLeaf(t) /\ ~Submitted(t)

\* C16 case: a tokio worker is inside the body, the handle is in the token.
C16_Witness ==
  /\ backend = "Tokio"
  /\ \E t \in Tasks : fpc[t] = "running" /\ HasLeaf(t)

\* C17: with the ThreadPool adapter the submission comes first: while spawn
\* stands between its lines 108 and 109 the pool has the computation and
\* the token has no capability yet; the token has none before the return.
C17_ThreadPoolSubmitsFirst ==
  backend = "ThreadPool" =>
    \A t \in Tasks :
      /\ spc[t] = "submitted" => Submitted(t) /\ ~HasLeaf(t)
      /\ HasLeaf(t) => spc[t] = "returned"

\* C17 case: a worker has finished the body of a task without delay while
\* spawn has not yet added the handle to the token.
C17_Witness ==
  /\ backend = "ThreadPool"
  /\ \E t \in Tasks : /\ spc[t] = "submitted"
                      /\ ~HasLeaf(t)
                      /\ delay[t] = 0
                      /\ fpc[t] = "ok"
                      /\ invoked[t] = 1

\* C18: with the LocalSpawner adapter the computation is not driven, and
\* the body does not begin, before spawn has returned with the capability
\* in the token: between submission and return it only sits in the queue,
\* also when schedule is called from inside a running body.
C18_LocalNotDrivenInSpawn ==
  IsLocal =>
    \A t \in Tasks :
      /\ Polled(t) => spc[t] = "returned" /\ HasLeaf(t)
      /\ spc[t] = "submitted" => fpc[t] = "queued" /\ invoked[t] = 0

\* C18 case: schedule was called from inside a body running on the loop
\* and stands between submission and add; the new task only sits queued.
C18_Witness ==
  /\ IsLocal
  /\ \E t, u \in Tasks : /\ t # u
                         /\ fpc[t] = "running"
                         /\ spc[u] = "submitted"
                         /\ fpc[u] = "queued"

\* C19 as stated: a task unsubscribed before its body started is retired
\* under a backend that keeps running (unless the LocalPool was dropped,
\* and the computation with it), and its body is not invoked.
C19_Original ==
  /\ [](\A t \in Tasks :
          unsubAt[t] \in {"early", "checked"} =>
            (~poolAlive \/ fpc[t] # "pending") /\ invoked[t] = 0)
  /\ \A t \in Tasks :
       (unsubAt[t] \in {"early", "checked"}) ~>
         (~poolAlive \/ (Retired(t) /\ invoked[t] = 0))

\* C19 as amended: a task unsubscribed before its is_closed() check does
\* not stay parked: from the unsubscribe() on its computation is never left
\* waiting for the timer, and under a backend that keeps running it is
\* retired with the body not invoked (unless the LocalPool was dropped, and
\* the computation with it); the schedule call has returned normally.  A
\* task unsubscribed between the check and the body runs its body once and
\* is retired as well.
C19_CancelledRetires ==
  /\ [](\A t \in Tasks :
          /\ unsubAt[t] # "never" => ~poolAlive \/ fpc[t] # "pending"
          /\ unsubAt[t] = "early" => spc[t] = "returned")
  /\ \A t \in Tasks :
       (unsubAt[t] = "early") ~>
         (~poolAlive \/ (Retired(t) /\ invoked[t] = 0))
  /\ \A t \in Tasks :
       (unsubAt[t] = "checked") ~> (fpc[t] = "ok" /\ invoked[t] = 1)

\* C19 case: cancelled during the delay wait, the computation was retired
\* by the abort while its timer was still running.
C19_Witness ==
  \E t \in Tasks : /\ unsubAt[t] = "early"
                   /\ remaining[t] > 0
                   /\ fpc[t] = "aborted"
                   /\ invoked[t] = 0

\* C20: an unsubscribe() on the token of t leaves every other task alone:
\* its token, its leaf, its abort flag, its computation and its count are
\* unchanged by the call, and a task whose own token was never unsubscribed
\* is retired only with its body run once, whatever was done to the others.
C20_OthersUntouched ==
  /\ [][\A t \in Tasks :
          UnsubscribeStep(t) =>
            /\ \A u \in Tasks \ {t} :
                 /\ closed'[u] = closed[u] /\ h_closed'[u] = h_closed[u]
                 /\ aborted'[u] = aborted[u] /\ teardown'[u] = teardown[u]
                 /\ fpc'[u] = fpc[u] /\ invoked'[u] = invoked[u]
                 /\ unsubAt'[u] = unsubAt[u]
            /\ counter' = counter]_vars
  /\ [](\A u \in Tasks :
          (unsubAt[u] = "never" /\ Retired(u)) =>
            fpc[u] = "ok" /\ invoked[u] = 1)

\* C20 case: one task was cancelled and retired by the abort, another one,
\* not unsubscribed, ran its body.
C20_Witness ==
  \E t, u \in Tasks : /\ t # u
                      /\ unsubAt[t] = "early" /\ fpc[t] = "aborted"
                      /\ unsubAt[u] = "never" /\ ~aborted[u]
                      /\ fpc[u] = "ok" /\ invoked[u] = 1

====
